---------------------------- MODULE Spec2Model ----------------------------
(***************************************************************************)
(* A model of pygrib.pyx (pygrib 1.0): the GRIB file iterator `open`, the  *)
(* dictionary-like `gribmessage` and the reduced-to-regular grid expansion *)
(* `_redtoreg`.                                                            *)
(*                                                                         *)
(* Six specifications share the variables below:                           *)
(*   SpecRed      calls of _redtoreg on bounded inputs;                    *)
(*   SpecBuf      calls of _redtoreg on buffers of any length;             *)
(*   SpecSession  a session (class open) and the message objects it made;  *)
(*   SpecAccess   one gribmessage: get / set / has_key / keys on any key;  *)
(*   SpecValues   one gribmessage: the "values" key of gridded messages;   *)
(*   SpecLatlons  one gribmessage: latlons on any grid type and earth shape.*)
(* Each specification leaves the variables of the others at their idle     *)
(* values.                                                                 *)
(*                                                                         *)
(* Arrays are functions over 0..n-1, as in the source (0-based indices).   *)
(* A C double is a binary floating-point number m * 2^e, written <<m, e>>  *)
(* with m odd (or <<0, 0>>), of MantBits significant bits and rounded to   *)
(* nearest, ties to even, after every operation, as IEEE 754 arithmetic is.*)
(***************************************************************************)
EXTENDS Integers, Sequences, FiniteSets, TLC

VARIABLES
    \* ---- _redtoreg call ----
    nlons,          \* argument nlons: the target width
    lonsperlat,     \* argument lonsperlat: the row lengths
    redgrid,        \* argument redgrid: the reduced values
    missval,        \* argument missval: the missing sentinel
    reggrid,        \* the returned array (NoArray before the call)
    touched,        \* the elements of redgrdptr read and of reggrdptr written
    \* ---- session (class open) ----
    messages,       \* open.messages: number of messages in the file
    fd_pos,         \* position of open._fd, in messages read
    sess_gh,        \* open._gh: NULL or a handle
    messagenumber,  \* open.messagenumber
    nhandles,       \* handles obtained from grib_handle_new_from_file so far
    released,       \* handle -> number of grib_handle_delete calls on it
    objs,           \* the gribmessage objects returned so far
    closed,         \* close() was called
    lastcall,       \* the last session call and how it ended
    deref,          \* the last handle a message object dereferenced
    \* ---- one gribmessage and the decoder handle it borrows ----
    dec,            \* the decoder's keys: name -> [type, ro, size, val]
    all_keys,       \* gribmessage._all_keys
    ro_keys,        \* gribmessage._ro_keys
    expand_reduced, \* gribmessage.expand_reduced
    projparams,     \* gribmessage.projparams
    result          \* the last call on the message: what it was given, the
                    \* decoder calls it made and how it ended

redvars  == <<nlons, lonsperlat, redgrid, missval, reggrid, touched>>
sessvars == <<messages, fd_pos, sess_gh, messagenumber, nhandles, released,
              objs, closed, lastcall, deref>>
msgvars  == <<dec, all_keys, ro_keys, expand_reduced, projparams, result>>
vars     == <<redvars, sessvars, msgvars>>

-----------------------------------------------------------------------------
(* Bounds of the model.                                                    *)

\* significant bits of the model's floating-point numbers (a double has 53)
MantBits == 5
\* largest target width nlons of a _redtoreg call
MaxLons == 3
\* largest number of rows (len(lonsperlat)) of a _redtoreg call
MaxLats == 2
\* largest number of reduced points (len(redgrid)) of a _redtoreg call
MaxPts == 3
\* largest number of messages in the file of a session
MaxMsgs == 2
\* largest number of handles a session obtains from the file
MaxHandles == 4
\* largest messagenumber a session is followed to
MaxNumber == 4

\* cells of a regular grid
MaxCells == 6
\* largest Ni and Nj of a message latlons is called on
MaxDim == 2

-----------------------------------------------------------------------------
(* Binary floating point.                                                  *)

RECURSIVE Pow2(_)
Pow2(n) == IF n <= 0 THEN 1 ELSE 2 * Pow2(n - 1)

Abs(n) == IF n < 0 THEN -n ELSE n

\* number of bits of the natural number n
RECURSIVE BitLen(_)
BitLen(n) == IF n = 0 THEN 0 ELSE 1 + BitLen(n \div 2)

\* the unique representation of m * 2^e: m odd, or <<0, 0>>
RECURSIVE Canon(_, _)
Canon(m, e) ==
    IF m = 0 THEN <<0, 0>>
    ELSE IF m % 2 = 0 THEN Canon(m \div 2, e + 1)
    ELSE <<m, e>>

\* (num / den) * 2^e, num >= 0, den > 0, rounded to MantBits bits,
\* to nearest, ties to even
RECURSIVE RoundPos(_, _, _)
RoundPos(num, den, e) ==
    IF num = 0 THEN <<0, 0>>
    ELSE IF num < den * Pow2(MantBits - 1) THEN RoundPos(2 * num, den, e - 1)
    ELSE IF num >= den * Pow2(MantBits) THEN RoundPos(num, 2 * den, e + 1)
    ELSE LET q == num \div den
             r == num % den
             up == 2 * r > den \/ (2 * r = den /\ q % 2 = 1)
         IN  Canon(IF up THEN q + 1 ELSE q, e)

FNeg(x) == <<-x[1], x[2]>>

Round(num, den, e) ==
    IF num < 0 THEN FNeg(RoundPos(-num, den, e)) ELSE RoundPos(num, den, e)

\* conversion of a C long to double
FromInt(n) == Round(n, 1, 0)

FMul(x, y) == Round(x[1] * y[1], 1, x[2] + y[2])

FDiv(x, y) ==
    IF y[1] < 0 THEN Round(-x[1], -y[1], x[2] - y[2])
    ELSE Round(x[1], y[1], x[2] - y[2])

\* position of the leading bit of x # 0
Top(x) == BitLen(Abs(x[1])) + x[2]

FAdd(x, y) ==
    IF x[1] = 0 THEN y
    ELSE IF y[1] = 0 THEN x
    ELSE IF Top(x) > Top(y) + MantBits + 2 THEN x
    ELSE IF Top(y) > Top(x) + MantBits + 2 THEN y
    ELSE LET e == IF x[2] < y[2] THEN x[2] ELSE y[2]
         IN  Round(x[1] * Pow2(x[2] - e) + y[1] * Pow2(y[2] - e), 1, e)

FSub(x, y) == FAdd(x, FNeg(y))

\* x < y for non-negative x
FLessPos(x, y) ==
    IF y[1] <= 0 THEN FALSE
    ELSE IF x[1] = 0 THEN TRUE
    ELSE IF Top(x) # Top(y) THEN Top(x) < Top(y)
    ELSE LET e == IF x[2] < y[2] THEN x[2] ELSE y[2]
         IN  x[1] * Pow2(x[2] - e) < y[1] * Pow2(y[2] - e)

\* x < y
FLess(x, y) ==
    IF x[1] < 0 THEN (IF y[1] >= 0 THEN TRUE ELSE FLessPos(FNeg(y), FNeg(x)))
    ELSE FLessPos(x, y)

FLeq(x, y) == x = y \/ FLess(x, y)

\* the cast <long>x: truncation toward zero
Trunc(x) ==
    IF x[2] >= 0 THEN x[1] * Pow2(x[2])
    ELSE IF x[1] >= 0 THEN x[1] \div Pow2(-x[2])
    ELSE -((-x[1]) \div Pow2(-x[2]))

FZero == <<0, 0>>
FOne  == <<1, 0>>
FHalf == <<1, -1>>

-----------------------------------------------------------------------------
(* _redtoreg                                                               *)

\* len(a) of a 1-d array, or its number of rows
ALen(a) == Cardinality(DOMAIN a)

\* the arrays of n elements of S
Arrays(n, S) == [0 .. n - 1 -> S]

\* sum of a[0..k-1]
RECURSIVE SumTo(_, _)
SumTo(a, k) == IF k <= 0 THEN 0 ELSE a[k - 1] + SumTo(a, k - 1)

\* the value of reggrid before _redtoreg has returned
NoArray == <<"none">>

\* missval = 1.e30, to MantBits bits
DefaultMissval == <<25, 95>>

\* zxi = i * flons / nlons: the index, on the reduced row, of column i
GridIndex_OffByOne(i, ilons, n_lons) ==
    FDiv(FMul(FromInt(i + 1), FromInt(ilons)), FromInt(n_lons))

GridIndex(i, ilons, n_lons) ==
    FDiv(FMul(FromInt(i), FromInt(ilons)), FromInt(n_lons))

\* the left neighbour im, the right neighbour ip and the weight zdx of the
\* index zxi, im0 being <int>zxi
Neighbours(zxi, im0, ilons) ==
    [im  |-> (im0 + ilons) % ilons,
     ip  |-> (((im0 + ilons) % ilons) + 1 + ilons) % ilons,
     zdx |-> FSub(zxi, FromInt(im0))]

\* nearest neighbour
Nearest_TiesLeft(vm, vp, zdx) == IF FLeq(zdx, FHalf) THEN vm ELSE vp

Nearest(vm, vp, zdx) == IF FLess(zdx, FHalf) THEN vm ELSE vp

\* linear interpolation
Interp(vm, vp, zdx) == FAdd(FMul(vm, FSub(FOne, zdx)), FMul(vp, zdx))

\* the value made of the neighbours vm and vp
Blend(vm, vp, zdx, mv) ==
    IF vm = mv \/ vp = mv THEN Nearest(vm, vp, zdx) ELSE Interp(vm, vp, zdx)

\* the value made of the neighbours nb of a row that starts at indx
CellOf(nb, indx, red, mv) == Blend(red[indx + nb.im], red[indx + nb.ip], nb.zdx, mv)

\* the value made for the index zxi
CellAt(zxi, ilons, indx, red, mv) ==
    CellOf(Neighbours(zxi, Trunc(zxi), ilons), indx, red, mv)

\* the value stored in reggrdptr[n] for column i of a row of ilons > 0 points
CellValue(i, ilons, indx, n_lons, red, mv) ==
    CellAt(GridIndex(i, ilons, n_lons), ilons, indx, red, mv)

\* n = n + 1, once per output cell
NextN_SkipEmpty(n, ilons) == IF ilons = 0 THEN n ELSE n + 1

NextN(n, ilons) == n + 1

\* indx = indx + ilons, once per row
NextIndx(indx, ilons) == indx + ilons

\* the inner loop: columns i..nlons-1 of row j; yields <<n, reg>>
RECURSIVE RowLoop(_, _, _, _, _, _, _, _)
RowLoop(i, ilons, indx, n, reg, n_lons, red, mv) ==
    IF i >= n_lons THEN <<n, reg>>
    ELSE RowLoop(i + 1, ilons, indx, NextN(n, ilons),
                 IF ilons # 0
                 THEN [reg EXCEPT ![n] = CellValue(i, ilons, indx, n_lons, red, mv)]
                 ELSE reg,
                 n_lons, red, mv)

RECURSIVE LatLoop(_, _, _, _, _, _, _, _)

\* the end of the outer loop's body, row being what the inner loop yielded
LatNext(j, indx, row, n_lons, lpl, red, mv) ==
    LatLoop(j + 1, NextIndx(indx, lpl[j]), row[1], row[2], n_lons, lpl, red, mv)

\* the outer loop: rows j..nlats-1; yields the flat output buffer
LatLoop(j, indx, n, reg, n_lons, lpl, red, mv) ==
    IF j >= ALen(lpl) THEN reg
    ELSE LatNext(j, indx, RowLoop(0, lpl[j], indx, n, reg, n_lons, red, mv),
                 n_lons, lpl, red, mv)

\* reggrid = missval * np.ones((nlats, nlons)), as a flat buffer
Fill(nlats, n_lons, mv) == [k \in 0 .. nlats * n_lons - 1 |-> FMul(mv, FOne)]

\* the (nlats, n_lons) array over the buffer flat
Grid(flat, nlats, n_lons) ==
    [j \in 0 .. nlats - 1 |-> [i \in 0 .. n_lons - 1 |-> flat[j * n_lons + i]]]

\* _redtoreg(nlons, lonsperlat, redgrid, missval): the (nlats, nlons) array
RedToReg(n_lons, lpl, red, mv) ==
    Grid(LatLoop(0, 0, 0, Fill(ALen(lpl), n_lons, mv), n_lons, lpl, red, mv),
         ALen(lpl), n_lons)

-----------------------------------------------------------------------------
\* the process was killed inside _redtoreg (a read of unmapped memory)
Crashed == <<"segfault">>

\* no element was read or written yet
NoAccess == [rd |-> {}, wr |-> {}]

\* the memory at redgrdptr: the npts elements of redgrid, followed by what
\* lies behind the buffer
Memory(red, beyond) ==
    [k \in 0 .. ALen(red) + ALen(beyond) - 1 |->
        IF k < ALen(red) THEN red[k] ELSE beyond[k - ALen(red)]]

\* the number of elements behind the buffer that a row of lpl extends over:
\* indx + ilons reaches the sum of the row lengths, npts is never looked at
Overrun(lpl, red) ==
    IF SumTo(lpl, ALen(lpl)) > ALen(red) THEN SumTo(lpl, ALen(lpl)) - ALen(red) ELSE 0

\* the indices of redgrdptr read for the neighbours nb of a row that starts
\* at indx: `or` reads redgrdptr[indx+ip] only if redgrdptr[indx+im] is not
\* missval, the nearest-neighbour branch reads the one it stores
CellReads(nb, indx, mem, mv) ==
    IF mem[indx + nb.im] = mv /\ FLess(nb.zdx, FHalf)
    THEN {indx + nb.im}
    ELSE {indx + nb.im, indx + nb.ip}

\* the indices of redgrdptr read for column i of row j
ReadsAt(j, i, n_lons, lpl, mem, mv) ==
    CellReads(Neighbours(GridIndex(i, lpl[j], n_lons),
                         Trunc(GridIndex(i, lpl[j], n_lons)), lpl[j]),
              SumTo(lpl, j), mem, mv)

\* the rows whose cells are computed (ilons != 0)
Computed(lpl) == {j \in DOMAIN lpl : lpl[j] # 0}

\* the indices of redgrdptr read during the call
Loads(n_lons, lpl, mem, mv) ==
    UNION {ReadsAt(c[1], c[2], n_lons, lpl, mem, mv) :
              c \in Computed(lpl) \X (0 .. n_lons - 1)}

\* the indices n of reggrdptr written during the call: n counts the cells
\* of the rows before j and the i cells before column i
Stores(n_lons, lpl) ==
    {c[1] * n_lons + c[2] : c \in Computed(lpl) \X (0 .. n_lons - 1)}

Accesses(n_lons, lpl, mem, mv) ==
    [rd |-> Loads(n_lons, lpl, mem, mv), wr |-> Stores(n_lons, lpl)]

\* how a call ends on the memory mem, of which the first npts elements are
\* the buffer: reading behind the buffer is undefined, the call returns what
\* it made of the elements it found there or the process is killed
Outcome(n_lons, lpl, mem, mv, acc, npts, crash) ==
    [reggrid |-> IF crash THEN Crashed ELSE RedToReg(n_lons, lpl, mem, mv),
     touched |-> acc,
     possible |-> crash => \E k \in acc.rd : k >= npts]

-----------------------------------------------------------------------------
(* SpecRed: one call of _redtoreg on each input within the bounds.         *)

\* values a cell of redgrid may hold, the sentinel among them
RedVals(mv) == {FOne, <<15, -3>>, mv}

\* the row-length vectors: 1..MaxLats rows, at most MaxPts points in all
RowLengths ==
    {l \in UNION {Arrays(k, 0 .. MaxPts) : k \in 1 .. MaxLats} :
        SumTo(l, ALen(l)) <= MaxPts}

SessIdle ==
    /\ messages = 0 /\ fd_pos = 0 /\ sess_gh = 0 /\ messagenumber = 0
    /\ nhandles = 0 /\ released = <<>> /\ objs = {} /\ closed = FALSE
    /\ lastcall = <<"none">> /\ deref = [gh |-> 0, dead |-> FALSE]

MsgIdle ==
    /\ dec = <<>> /\ all_keys = {} /\ ro_keys = {}
    /\ expand_reduced = TRUE /\ projparams = [t |-> "none"]
    /\ result = [op |-> "none"]

InitRed ==
    /\ nlons \in 1 .. MaxLons
    /\ lonsperlat \in RowLengths
    /\ missval = DefaultMissval
    /\ redgrid \in Arrays(SumTo(lonsperlat, ALen(lonsperlat)), RedVals(missval))
    /\ reggrid = NoArray
    /\ touched = NoAccess
    /\ SessIdle
    /\ MsgIdle

\* reggrid = _redtoreg(nlons, lonsperlat, redgrid, missval)
RedToRegCall ==
    /\ reggrid = NoArray
    /\ \E beyond \in Arrays(Overrun(lonsperlat, redgrid), RedVals(missval)),
          crash \in BOOLEAN :
          \E mem \in {Memory(redgrid, beyond)} :
          \E acc \in {Accesses(nlons, lonsperlat, mem, missval)} :
          \E out \in {Outcome(nlons, lonsperlat, mem, missval, acc,
                               ALen(redgrid), crash)} :
             /\ out.possible
             /\ reggrid' = out.reggrid
             /\ touched' = out.touched
    /\ UNCHANGED <<nlons, lonsperlat, redgrid, missval, sessvars, msgvars>>

NextRed == RedToRegCall

SpecRed == InitRed /\ [][NextRed]_vars

\* the call has returned
Returned == reggrid # NoArray

\* the segment of redgrid that belongs to row j: offset and cells
Offset(j) == SumTo(lonsperlat, j)

Segment(j) == [k \in 0 .. lonsperlat[j] - 1 |-> redgrid[Offset(j) + k]]

Rows == 0 .. ALen(lonsperlat) - 1

Cols == 0 .. nlons - 1

\* C8: a row whose length equals the target width is copied element for
\* element, whatever it holds (the missing sentinel included).
C8_FullRowCopied ==
    Returned =>
        \A j \in Rows : lonsperlat[j] = nlons =>
            \A i \in Cols : reggrid[j][i] = redgrid[Offset(j) + i]

C8_Witness ==
    /\ Returned
    /\ \E j \in Rows :
          /\ lonsperlat[j] = nlons /\ nlons >= 3
          /\ \E i, k \in Cols : Segment(j)[i] = missval /\ Segment(j)[k] # missval
                                 /\ Segment(j)[(k + 1) % nlons] # missval

\* smallest and largest value of a non-empty row
IsMin(v, row) == (\E k \in DOMAIN row : row[k] = v) /\ \A k \in DOMAIN row : FLeq(v, row[k])

IsMax(v, row) == (\E k \in DOMAIN row : row[k] = v) /\ \A k \in DOMAIN row : FLeq(row[k], v)

\* C9: in a row of length >= 1 with no missing source value, every output
\* cell lies within [min(row), max(row)].
C9_WithinRowRange ==
    Returned =>
        \A j \in Rows :
            (lonsperlat[j] >= 1 /\ \A k \in DOMAIN Segment(j) : Segment(j)[k] # missval) =>
                \A i \in Cols : \A lo, hi \in RedVals(missval) :
                    (IsMin(lo, Segment(j)) /\ IsMax(hi, Segment(j))) =>
                        FLeq(lo, reggrid[j][i]) /\ FLeq(reggrid[j][i], hi)

\* C10: the result has len(lonsperlat) rows of nlons cells; row j is what the
\* expansion makes of the segment of row j alone; a row of length 0 is all
\* missing and shifts nothing.
C10_RowsIndependent ==
    Returned =>
        /\ DOMAIN reggrid = Rows
        /\ \A j \in Rows :
              /\ DOMAIN reggrid[j] = Cols
              /\ reggrid[j] = RedToReg(nlons, [k \in {0} |-> lonsperlat[j]],
                                         Segment(j), missval)[0]
              /\ lonsperlat[j] = 0 => \A i \in Cols : reggrid[j][i] = missval

\* the left neighbour floor(i*L/W) of column i on a row of L points, the
\* right neighbour on the same row, and the fraction between them
Left(i, L) == (i * L) \div nlons

Right(i, L) == (Left(i, L) + 1) % L

Frac(i, L) == FSub(FDiv(FromInt(i * L), FromInt(nlons)), FromInt(Left(i, L)))

\* what the rule of C17 makes of the neighbours vm and vp
Expected(vm, vp, frac) ==
    IF vm = missval \/ vp = missval
    THEN (IF FLess(frac, FHalf) THEN vm ELSE vp)
    ELSE FAdd(FMul(vm, FSub(FOne, frac)), FMul(vp, frac))

\* C17: every output cell of a row of length L >= 1 is made of the row's
\* points im = floor(i*L/W) and ip = (im+1) mod L: the nearer of the two
\* (the left one when frac < 0.5) if either is missing, and
\* v[im]*(1-frac) + v[ip]*frac otherwise.
C17_CellRule ==
    Returned =>
        \A j \in Rows : lonsperlat[j] >= 1 =>
            \A i \in Cols :
                reggrid[j][i] = Expected(Segment(j)[Left(i, lonsperlat[j])],
                                         Segment(j)[Right(i, lonsperlat[j])],
                                         Frac(i, lonsperlat[j]))

C17_Witness ==
    /\ Returned
    /\ \E j \in Rows : \E i \in Cols :
          /\ Offset(j) >= 1 /\ lonsperlat[j] >= 2
          /\ Right(i, lonsperlat[j]) = 0
          /\ Segment(j)[Left(i, lonsperlat[j])] = missval
          /\ Segment(j)[0] # missval
          /\ redgrid[0] = missval
          /\ reggrid[j][i] = missval

C10_Witness ==
    /\ Returned
    /\ ALen(lonsperlat) >= 2 /\ nlons >= 2
    /\ lonsperlat[0] = 0 /\ lonsperlat[1] >= 2
    /\ \E i \in Cols : reggrid[1][i] # missval
    /\ \A i \in Cols : reggrid[0][i] = missval

-----------------------------------------------------------------------------
(* SpecBuf: one call of _redtoreg on a buffer of any length, whatever the  *)
(* row lengths add up to.                                                  *)

InitBuf ==
    /\ nlons \in 1 .. MaxLons
    /\ lonsperlat \in RowLengths
    /\ missval = DefaultMissval
    /\ redgrid \in UNION {Arrays(n, RedVals(missval)) : n \in 0 .. MaxPts}
    /\ reggrid = NoArray
    /\ touched = NoAccess
    /\ SessIdle
    /\ MsgIdle

NextBuf == RedToRegCall

SpecBuf == InitBuf /\ [][NextBuf]_vars

\* the indices read lie in the buffer of redgrid
ReadsWithin == \A k \in touched.rd : k \in 0 .. ALen(redgrid) - 1

\* the indices written lie in the buffer of reggrid
WritesWithin == \A n \in touched.wr : n \in 0 .. ALen(lonsperlat) * nlons - 1

\* the row lengths add up to no more than the buffer holds
RowsFit == SumTo(lonsperlat, ALen(lonsperlat)) <= ALen(redgrid)

\* C21: every index of reduced_values read lies in [0, len(reduced_values))
\* and every output index written lies in [0, len(row_lengths) * W),
\* whatever the row lengths add up to.
C21_WithinBuffers == ReadsWithin /\ WritesWithin

ReadsWithinIfRowsFit == RowsFit => ReadsWithin

-----------------------------------------------------------------------------
(* SpecSession: class open, and the gribmessage objects it returns.        *)
(* The file holds `messages` well-formed messages (grib_count_in_file      *)
(* succeeded when the session was made), so grib_handle_new_from_file      *)
(* yields a new handle, or NULL at the end of the file, and no error code. *)
(* A session is followed until close().                                    *)

NULL == 0

Handles == 1 .. MaxHandles

RedIdle ==
    /\ nlons = 0 /\ lonsperlat = <<>> /\ redgrid = <<>>
    /\ missval = DefaultMissval /\ reggrid = NoArray /\ touched = NoAccess

\* the session's fields as one record, for the loops below
Session == [fd_pos |-> fd_pos, gh |-> sess_gh, messagenumber |-> messagenumber,
            nhandles |-> nhandles, released |-> released, exc |-> "none"]

\* open.__new__
InitSession ==
    /\ messages \in 0 .. MaxMsgs
    /\ fd_pos = 0
    /\ sess_gh = NULL
    /\ messagenumber = 0
    /\ nhandles = 0
    /\ released = [h \in Handles |-> 0]
    /\ objs = {}
    /\ closed = FALSE
    /\ lastcall = <<"none">>
    /\ deref = [gh |-> NULL, dead |-> FALSE]
    /\ RedIdle
    /\ MsgIdle

\* err = grib_handle_delete(self._gh): releases the handle; NULL is ignored
HandleDelete(s) ==
    IF s.gh = NULL THEN s
    ELSE [s EXCEPT !.released = [@ EXCEPT ![s.gh] = @ + 1]]

\* self._gh = grib_handle_new_from_file(NULL, self._fd, &err)
HandleNewFromFile(s) ==
    IF s.fd_pos < messages
    THEN [s EXCEPT !.gh = s.nhandles + 1, !.nhandles = @ + 1, !.fd_pos = @ + 1]
    ELSE [s EXCEPT !.gh = NULL]

\* open.rewind: the handle is dropped, not released
RewindS_KeepsNumber(s) == [s EXCEPT !.fd_pos = 0, !.gh = NULL]

RewindS(s) == [s EXCEPT !.fd_pos = 0, !.gh = NULL, !.messagenumber = 0]

\* the loop of open.message, iterations n..N-1
RECURSIVE MessageLoop(_, _, _)
MessageLoop(s, n, N) ==
    IF n >= N THEN s
    ELSE LET s1 == HandleNewFromFile(HandleDelete(s))
         IN  IF s1.gh = NULL THEN [s1 EXCEPT !.exc = "IOError"]
             ELSE MessageLoop([s1 EXCEPT !.messagenumber = @ + 1], n + 1, N)

\* gribmessage.__new__(grb): borrows grb._gh and copies grb.messagenumber
NewMessage(s) == [gh |-> s.gh, messagenumber |-> s.messagenumber]

Install(s) ==
    /\ fd_pos' = s.fd_pos
    /\ sess_gh' = s.gh
    /\ messagenumber' = s.messagenumber
    /\ nhandles' = s.nhandles
    /\ released' = s.released

\* open.rewind()
Rewind ==
    /\ ~closed
    /\ Install(RewindS(Session))
    /\ lastcall' = <<"rewind", 0, "ok">>
    /\ UNCHANGED <<messages, objs, closed, deref, redvars, msgvars>>

\* open.message(N)
Message(N) ==
    /\ ~closed
    /\ nhandles + N <= MaxHandles
    /\ LET s == MessageLoop(RewindS(Session), 0, N)
       IN  /\ Install(s)
           /\ IF s.exc = "none"
              THEN /\ objs' = objs \cup {NewMessage(s)}
                   /\ lastcall' = <<"message", N, "ok">>
              ELSE /\ objs' = objs
                   /\ lastcall' = <<"message", N, s.exc>>
    /\ UNCHANGED <<messages, closed, deref, redvars, msgvars>>

\* open.__next__()
NextMessage ==
    /\ ~closed
    /\ nhandles < MaxHandles
    /\ messagenumber < MaxNumber
    /\ LET s1 == HandleNewFromFile(HandleDelete(Session))
           s  == [s1 EXCEPT !.messagenumber = @ + 1]
       IN  /\ Install(s)
           /\ IF s.gh = NULL
              THEN /\ objs' = objs
                   /\ lastcall' = <<"next", 0, "StopIteration">>
              ELSE /\ objs' = objs \cup {NewMessage(s)}
                   /\ lastcall' = <<"next", 0, "ok">>
    /\ UNCHANGED <<messages, closed, deref, redvars, msgvars>>

\* open.close()
Close ==
    /\ ~closed
    /\ closed' = TRUE
    /\ released' = (IF sess_gh # NULL THEN HandleDelete(Session) ELSE Session).released
    /\ lastcall' = <<"close", 0, "ok">>
    /\ UNCHANGED <<messages, fd_pos, sess_gh, messagenumber, nhandles, objs,
                   deref, redvars, msgvars>>

\* the operations of a gribmessage that pass self._gh to the decoder:
\* __getitem__ (grib_get_size), __setitem__ on a writable key
\* (grib_get_native_type), tostring (grib_get_size) and latlons (through
\* __getitem__); has_key and keys answer from the cached catalog
MsgOps == {"get", "set", "tostring", "latlons", "has_key", "keys"}

UsesHandle(op) == op \in {"get", "set", "tostring", "latlons"}

\* an operation on a message object the session returned earlier
MsgOp(o, op) ==
    /\ o \in objs
    /\ op \in MsgOps
    /\ deref' = IF UsesHandle(op)
                THEN [gh |-> o.gh, dead |-> released[o.gh] > 0]
                ELSE [gh |-> NULL, dead |-> FALSE]
    /\ lastcall' = <<op, o.messagenumber, "ok">>
    /\ UNCHANGED <<messages, fd_pos, sess_gh, messagenumber, nhandles,
                   released, objs, closed, redvars, msgvars>>

NextSession ==
    \/ Rewind
    \/ \E N \in 1 .. MaxMsgs + 1 : Message(N)
    \/ NextMessage
    \/ Close
    \/ \E o \in objs, op \in MsgOps : MsgOp(o, op)

SpecSession == InitSession /\ [][NextSession]_vars

\* the handles the session has obtained from the file
Obtained == 1 .. nhandles

\* C3: no operation of a message object dereferences a handle the session
\* has already released.
C3_NoStaleHandleUse == ~deref.dead

\* C4: every handle the session obtained is released exactly once: none is
\* released twice, and after close() none remains unreleased.
C4_ReleasedExactlyOnce ==
    /\ \A h \in Obtained : released[h] <= 1
    /\ closed => \A h \in Obtained : released[h] = 1

\* the message object made by the call that has just ended: it holds the
\* handle the session has read last, of the reads it has made, and the
\* number num
Returns(num, reads) ==
    /\ lastcall'[3] = "ok"
    /\ sess_gh' = nhandles' /\ nhandles' = nhandles + reads
    /\ messagenumber' = num
    /\ objs' = objs \cup {[gh |-> sess_gh', messagenumber |-> num]}

\* C13: the file position and the message number agree while messages
\* remain (both are 0 in a new session and after rewind); next() then
\* reads the message at the next position of the file and returns it with
\* the next number, and raises StopIteration at the end of the file;
\* message(N) with N <= messages returns message N from any position and
\* leaves the position at N, and raises IOError with N > messages.
C13_IterationOrder ==
    [][/\ fd_pos' < messages => messagenumber' = fd_pos'
       /\ lastcall'[1] = "rewind" => fd_pos' = 0 /\ messagenumber' = 0
       /\ lastcall'[1] = "next" =>
             IF fd_pos < messages
             THEN fd_pos' = fd_pos + 1 /\ Returns(fd_pos + 1, 1)
             ELSE lastcall'[3] = "StopIteration" /\ objs' = objs /\ fd_pos' = fd_pos
       /\ lastcall'[1] = "message" =>
             IF lastcall'[2] <= messages
             THEN fd_pos' = lastcall'[2] /\ Returns(lastcall'[2], lastcall'[2])
             ELSE lastcall'[3] = "IOError" /\ objs' = objs]_vars

C13_Witness ==
    /\ lastcall = <<"next", 0, "ok">>
    /\ messages >= 2
    /\ messagenumber = messages
    /\ nhandles > messages
    /\ \E o \in objs : o.messagenumber = messages /\ o.gh = sess_gh

\* C20: the session's messagenumber is between 0 and the number of messages
\* of the file, also after next() has raised StopIteration.
C20_NumberWithinFile == messagenumber \in 0 .. messages

-----------------------------------------------------------------------------
(* gribmessage: values, arrays and the decoder.                            *)
(* The decoder (grib_api) holds, for the handle of the message, a table of *)
(* keys: dec[name] = [type, ro, size, val], val an array of size elements  *)
(* (a STRING key holds one text).  A value handed to or returned by the    *)
(* message is a record tagged by t: "none", "long", "double", "str" or     *)
(* "array" (a numpy array of nd dimensions, masked or not).                *)

NativeTypes == {"UNDEFINED", "LONG", "DOUBLE", "STRING", "BYTES", "SECTION",
                "LABEL", "MISSING"}

\* keys() ignores keys of these types ...
IgnoredTypes == {"UNDEFINED", "SECTION", "BYTES", "LABEL", "MISSING"}

\* ... and keys of these names
IgnoredNames == {"zero", "one", "eight", "eleven", "false", "thousand", "file",
                 "localDir", "7777", "oneThousand"}

GRIB_MISSING_LONG == 2147483647

VNone == [t |-> "none"]

VLong(n) == [t |-> "long", v |-> n]

VDouble(x) == [t |-> "double", v |-> x]

\* a text followed by pad blanks
VStr(text, pad) == [t |-> "str", v |-> text, pad |-> pad]

VArray(nd, a) == [t |-> "array", nd |-> nd, a |-> a, masked |-> FALSE, mask |-> <<>>]

VMasked(nd, a, mask) == [t |-> "array", nd |-> nd, a |-> a, masked |-> TRUE, mask |-> mask]

\* how a call ended: the exception raised ("none": it returned), the value
\* returned and the decoder calls made, in order
Ret(value, calls) == [exc |-> "none", value |-> value, calls |-> calls]

Raise(exc, calls) == [exc |-> exc, value |-> VNone, calls |-> calls]

\* the truth value Python gives a returned value
Truthy(x) ==
    IF x.t = "long" THEN x.v # 0
    ELSE IF x.t = "double" THEN x.v[1] # 0
    ELSE IF x.t = "str" THEN x.v # ""
    ELSE x.t # "none"

\* str.rstrip()
RStrip(x) == [x EXCEPT !.pad = 0]

\* str.startswith('reduced'), on the grid types of the model
StartsWithReduced(x) == x.v \in {"reduced_gg", "reduced_ll"}

NRows(a) == ALen(a)

NCols(a) == IF ALen(a) = 0 THEN 0 ELSE ALen(a[0])

\* datarr.size
Size(x) == IF x.nd # 2 THEN ALen(x.a) ELSE NRows(x.a) * NCols(x.a)

\* the buffer of a C-contiguous array a of nd dimensions (an array of more
\* than two dimensions is kept as its buffer)
FlatOf(nd, a) ==
    IF nd # 2 THEN a
    ELSE [k \in 0 .. NRows(a) * NCols(a) - 1 |-> a[k \div NCols(a)][k % NCols(a)]]

\* datarr.data
Flat(x) == FlatOf(x.nd, x.a)

\* the (ny, nx) array over the buffer flat
Reshape(flat, ny, nx) ==
    [r \in 0 .. ny - 1 |-> [c \in 0 .. nx - 1 |-> flat[r * nx + c]]]

\* a[::-1,:]
RowsReversed(a) == [r \in DOMAIN a |-> a[NRows(a) - 1 - r]]

\* a[:,::-1]
ColsReversed(a) == [r \in DOMAIN a |-> [c \in DOMAIN a[r] |-> a[r][NCols(a) - 1 - c]]]

\* the rows 1::2
OddRow(r) == r % 2 = 1

\* datarr[:,:] = datsave[::-1,:]
ReadRowsReversed_Rotated(a) == [r \in DOMAIN a |-> a[(r + 1) % NRows(a)]]

ReadRowsReversed(a) == RowsReversed(a)

\* datarr[:,:] = datsave[:,::-1]
ReadColsReversed(a) == ColsReversed(a)

\* datarr[1::2,:] = datsave[1::2,::-1]
ReadOddRowsReversed(a) ==
    [r \in DOMAIN a |-> IF OddRow(r) THEN ColsReversed(a)[r] ELSE a[r]]

\* datarr[::-1,:] = datsave[:,:]
WriteRowsReversed(a) == [r \in DOMAIN a |-> a[NRows(a) - 1 - r]]

\* datarr[:,::-1] = datsave[:,:]
WriteColsReversed(a) ==
    [r \in DOMAIN a |-> [c \in DOMAIN a[r] |-> a[r][NCols(a) - 1 - c]]]

\* datarr[1::2,::-1] = datsave[1::2,:]
WriteOddRowsReversed(a) ==
    [r \in DOMAIN a |-> IF OddRow(r)
                        THEN [c \in DOMAIN a[r] |-> a[r][NCols(a) - 1 - c]]
                        ELSE a[r]]

\* an assignment through datarr[...] moves the data and, on a masked array,
\* the mask with it
OnArray(x, F(_)) ==
    IF x.masked THEN [x EXCEPT !.a = F(x.a), !.mask = F(x.mask)]
    ELSE [x EXCEPT !.a = F(x.a)]

\* datarr.shape = (ny, nx), the size being ny * nx
SetShape(x, ny, nx) ==
    IF x.masked
    THEN [x EXCEPT !.nd = 2, !.a = Reshape(FlatOf(x.nd, x.a), ny, nx),
                   !.mask = Reshape(FlatOf(x.nd, x.mask), ny, nx)]
    ELSE [x EXCEPT !.nd = 2, !.a = Reshape(FlatOf(x.nd, x.a), ny, nx)]

\* ma.masked_values(datarr, value): the cells equal to value are masked, and
\* those datarr had masked stay masked (two floats of MantBits bits that
\* differ are further apart than the tolerance of the comparison)
MaskedValues(x, value) ==
    IF x.nd = 1
    THEN VMasked(1, x.a, [k \in DOMAIN x.a |-> x.a[k] = value \/ (x.masked /\ x.mask[k])])
    ELSE VMasked(2, x.a, [r \in DOMAIN x.a |-> [c \in DOMAIN x.a[r] |->
                              x.a[r][c] = value \/ (x.masked /\ x.mask[r][c])]])

\* the message: the decoder's keys behind its handle and its own attributes
Msg == [dec |-> dec, all_keys |-> all_keys, ro_keys |-> ro_keys,
        expand_reduced |-> expand_reduced]

\* gribmessage.has_key
HasKey(m, key) == key \in m.all_keys

\* the calls g of a method follow the calls c made before it
AfterCalls(c, g) == [g EXCEPT !.calls = c \o g.calls]

\* a call raises inside a method that holds the array x
RaisedWith(g, x) == [g EXCEPT !.value = x]

RECURSIVE GetKey(_, _)

\* self[key] inside a method, after the calls c.  The methods read no
\* "values" this way, so that nothing is reshaped here.
Lookup(m, key, c) == AfterCalls(c, GetKey(m, key))

\* datarr = np.empty(size, ...) and the decoder call fn that fills it, go
\* being what the test of jPointsAreConsecutive gave
GetArrayFill(m, key, fn, go) ==
    IF go.exc # "none" THEN go
    ELSE Ret(VArray(1, m.dec[key].val), Append(go.calls, <<fn, key>>))

\* the array branch of __getitem__, up to the test for "values" (the
\* storage order has no effect on the 1-d buffer)
GetArray(m, key, fn, c) ==
    GetArrayFill(m, key, fn,
                 IF HasKey(m, "jPointsAreConsecutive")
                 THEN Lookup(m, "jPointsAreConsecutive", c)
                 ELSE Ret(VNone, c))

\* the scalar read of __getitem__
GetScalar(k) == IF k.type = "LONG" THEN VLong(k.val[0]) ELSE VDouble(k.val[0])

\* the decoder function a numeric read uses
GetFn(k) ==
    IF k.type = "LONG"
    THEN (IF k.size = 1 THEN "grib_get_long" ELSE "grib_get_long_array")
    ELSE (IF k.size = 1 THEN "grib_get_double" ELSE "grib_get_double_array")

\* gribmessage.__getitem__(key), up to the test for "values" in its array
\* branches
GetKey(m, key) ==
    LET c0 == <<<<"grib_get_size", key>>>>
        c1 == <<<<"grib_get_size", key>>, <<"grib_get_native_type", key>>>>
    IN
    IF key \notin DOMAIN m.dec THEN Raise("RuntimeError", c0)
    ELSE IF m.dec[key].type = "UNDEFINED" THEN Ret(VNone, c1)
    ELSE IF m.dec[key].type \in {"LONG", "DOUBLE"}
    THEN IF m.dec[key].size = 1
         THEN Ret(GetScalar(m.dec[key]), Append(c1, <<GetFn(m.dec[key]), key>>))
         ELSE GetArray(m, key, GetFn(m.dec[key]), c1)
    ELSE IF m.dec[key].type = "STRING"
    THEN Ret(RStrip(m.dec[key].val), Append(c1, <<"grib_get_string", key>>))
    ELSE Raise("ValueError", c1)

\* _reshape_mask: datarr = ma.masked_values(datarr, self['missingValue'])
ReshapeMasked(datarr, gm) ==
    IF gm.exc # "none" THEN gm ELSE Ret(MaskedValues(datarr, gm.value.v), gm.calls)

\* _reshape_mask: ... and self['numberOfMissing']
ReshapeCount(m, datarr, gn) ==
    IF gn.exc # "none" THEN gn
    ELSE IF ~Truthy(gn.value) THEN Ret(datarr, gn.calls)
    ELSE ReshapeMasked(datarr, Lookup(m, "missingValue", gn.calls))

\* _reshape_mask: if self.has_key('missingValue') and ...
ReshapeMissing(m, datarr, c) ==
    IF ~HasKey(m, "missingValue") THEN Ret(datarr, c)
    ELSE ReshapeCount(m, datarr, Lookup(m, "numberOfMissing", c))

\* _reshape_mask: if self['alternativeRowScanning']: flip every other row
ReshapeOddRows(m, datarr, ga) ==
    IF ga.exc # "none" THEN ga
    ELSE ReshapeMissing(m, IF Truthy(ga.value) THEN OnArray(datarr, ReadOddRowsReversed)
                           ELSE datarr,
                        ga.calls)

\* _reshape_mask: if self['iScansNegatively']: flip the columns
ReshapeCols(m, datarr, gi) ==
    IF gi.exc # "none" THEN gi
    ELSE ReshapeOddRows(m, IF Truthy(gi.value) THEN OnArray(datarr, ReadColsReversed)
                           ELSE datarr,
                        Lookup(m, "alternativeRowScanning", gi.calls))

\* _reshape_mask: if not self['jScansPositively']: flip the rows
ReshapeRows(m, datarr, gj) ==
    IF gj.exc # "none" THEN gj
    ELSE ReshapeCols(m, IF ~Truthy(gj.value) THEN OnArray(datarr, ReadRowsReversed)
                        ELSE datarr,
                     Lookup(m, "iScansNegatively", gj.calls))

\* _reshape_mask: if datarr.ndim == 2, the scan modes and the mask
ReshapeScan(m, datarr, c) ==
    IF datarr.nd # 2 THEN Ret(datarr, c)
    ELSE ReshapeRows(m, datarr, Lookup(m, "jScansPositively", c))

\* _reshape_mask: datarr = _redtoreg(2*ny, self['pl'], datarr, missval)
ReshapeExpand(m, datarr, ny, missv, gp) ==
    IF gp.exc # "none" THEN gp
    ELSE IF gp.value.t # "array" THEN Raise("TypeError", gp.calls)
    ELSE ReshapeScan(m, VArray(2, RedToReg(2 * ny, gp.value.a, Flat(datarr), missv)),
                     gp.calls)

\* _reshape_mask: if self.expand_reduced, gm being the sentinel
ReshapeMissval(m, datarr, ny, gm) ==
    IF gm.exc # "none" THEN gm
    ELSE IF ~m.expand_reduced THEN ReshapeScan(m, datarr, gm.calls)
    ELSE ReshapeExpand(m, datarr, ny, gm.value.v, Lookup(m, "pl", gm.calls))

\* _reshape_mask: ... and self['typeOfGrid'].startswith('reduced'); the
\* sentinel is missingValue, or 1.e30
ReshapeType(m, datarr, ny, gt) ==
    IF gt.exc # "none" THEN gt
    ELSE IF ~StartsWithReduced(gt.value) THEN ReshapeScan(m, datarr, gt.calls)
    ELSE ReshapeMissval(m, datarr, ny,
                        IF HasKey(m, "missingValue")
                        THEN Lookup(m, "missingValue", gt.calls)
                        ELSE Ret(VDouble(DefaultMissval), gt.calls))

\* _reshape_mask: if self.has_key('typeOfGrid') and ...
ReshapeGrid(m, datarr, ny, c) ==
    IF ~HasKey(m, "typeOfGrid") THEN ReshapeScan(m, datarr, c)
    ELSE ReshapeType(m, datarr, ny, Lookup(m, "typeOfGrid", c))

\* _reshape_mask: datarr.shape = (ny, nx), unless Ni or Nj is missing
ReshapeShape(m, datarr, ny, nx, c) ==
    IF ny = GRIB_MISSING_LONG \/ nx = GRIB_MISSING_LONG THEN ReshapeGrid(m, datarr, ny, c)
    ELSE IF ny * nx # Size(datarr) THEN Raise("ValueError", c)
    ELSE ReshapeGrid(m, SetShape(datarr, ny, nx), ny, c)

\* _reshape_mask: ny = self['Nj']
ReshapeNj(m, datarr, nx, gy) ==
    IF gy.exc # "none" THEN gy ELSE ReshapeShape(m, datarr, gy.value.v, nx, gy.calls)

\* _reshape_mask: nx = self['Ni']
ReshapeNi(m, datarr, gx) ==
    IF gx.exc # "none" THEN gx
    ELSE ReshapeNj(m, datarr, gx.value.v, Lookup(m, "Nj", gx.calls))

\* gribmessage._reshape_mask(datarr), after the decoder calls c
ReshapeMask(m, datarr, c) ==
    IF datarr.nd > 2 THEN Raise("ValueError", c)
    ELSE IF ~(HasKey(m, "Ni") /\ HasKey(m, "Nj")) THEN Ret(datarr, c)
    ELSE ReshapeNi(m, datarr, Lookup(m, "Ni", c))

\* __getitem__: if key == 'values': return self._reshape_mask(datarr)
GetValuesArray(m, key, g) ==
    IF g.exc = "none" /\ key = "values" /\ g.value.t = "array"
    THEN ReshapeMask(m, g.value, g.calls)
    ELSE g

\* gribmessage.__getitem__(key)
GetItem(m, key) == GetValuesArray(m, key, GetKey(m, key))

\* gribmessage.keys(), before the catalog is cached
Keys(d) == {k \in DOMAIN d : k \notin IgnoredNames /\ d[k].type \notin IgnoredTypes}

\* gribmessage._read_only_keys(): the catalog keys that the iterator that
\* skips read-only keys does not list
ReadOnlyKeys(d, all) == all \ {k \in DOMAIN d : ~d[k].ro}

\* the decoder functions that change the message
WriteFns == {"grib_set_long", "grib_set_double", "grib_set_long_array",
             "grib_set_double_array", "grib_set_string"}

\* the decoder takes a scalar for a key of one element and an array of the
\* key's element count, and may refuse any value (accept = FALSE)
DecAccepts(d, key, fn, data, accept) ==
    /\ accept
    /\ fn \in {"grib_set_long", "grib_set_double"} => d[key].size = 1
    /\ fn \in {"grib_set_long_array", "grib_set_double_array"} => ALen(data) = d[key].size

\* the key's value after an accepted write
DecWrite(d, key, fn, data) ==
    IF fn \in {"grib_set_long", "grib_set_double"}
    THEN [d EXCEPT ![key].val = [k \in {0} |-> data]]
    ELSE [d EXCEPT ![key].val = data]

\* how __setitem__ ended: as Ret/Raise, with the decoder's keys and the
\* caller's value as the call leaves them
SetRet(exc, calls, d, arg) == [exc |-> exc, value |-> VNone, calls |-> calls, dec |-> d, arg |-> arg]

\* err = grib_set_*(self._gh, name, ...) and the test of err
SetWrite(m, key, fn, data, accept, c, arg) ==
    IF DecAccepts(m.dec, key, fn, data, accept)
    THEN SetRet("none", Append(c, <<fn, key>>), DecWrite(m.dec, key, fn, data), arg)
    ELSE SetRet("RuntimeError", Append(c, <<fn, key>>), m.dec, arg)

\* datarr.filled(): the data, the masked cells holding the fill value
Filled(x) == [x EXCEPT !.masked = FALSE, !.mask = <<>>]

\* _unshape_mask: if self['alternativeRowScanning']: flip every other row
UnshapeOddRows(x, ga) ==
    IF ga.exc # "none" THEN RaisedWith(ga, x)
    ELSE Ret(IF Truthy(ga.value) THEN OnArray(x, WriteOddRowsReversed) ELSE x, ga.calls)

\* _unshape_mask: if self['iScansNegatively']: flip the columns
UnshapeCols(m, x, gi) ==
    IF gi.exc # "none" THEN RaisedWith(gi, x)
    ELSE UnshapeOddRows(IF Truthy(gi.value) THEN OnArray(x, WriteColsReversed) ELSE x,
                        Lookup(m, "alternativeRowScanning", gi.calls))

\* _unshape_mask: if not self['jScansPositively']: flip the rows
UnshapeRows(m, x, gj) ==
    IF gj.exc # "none" THEN RaisedWith(gj, x)
    ELSE UnshapeCols(m, IF ~Truthy(gj.value) THEN OnArray(x, WriteRowsReversed) ELSE x,
                     Lookup(m, "iScansNegatively", gj.calls))

\* _unshape_mask: if datarr.ndim == 2, the scan modes, each correction
\* made in place
UnshapeScan(m, x, c) ==
    IF x.nd # 2 THEN Ret(x, c)
    ELSE UnshapeRows(m, x, Lookup(m, "jScansPositively", c))

\* _unshape_mask: ... and self['typeOfGrid'].startswith('reduced')
UnshapeType(m, x, gt) ==
    IF gt.exc # "none" THEN RaisedWith(gt, x)
    ELSE IF StartsWithReduced(gt.value) /\ x.nd # 1
    THEN RaisedWith(Raise("ValueError", gt.calls), x)
    ELSE UnshapeScan(m, x, gt.calls)

\* _unshape_mask: if self.has_key('typeOfGrid') and ...
UnshapeGrid(m, x, c) ==
    IF ~HasKey(m, "typeOfGrid") THEN UnshapeScan(m, x, c)
    ELSE UnshapeType(m, x, Lookup(m, "typeOfGrid", c))

\* gribmessage._unshape_mask(datarr), after the decoder calls c; value is
\* the array as the call leaves it
UnshapeMask(m, datarr, c) ==
    IF datarr.nd > 2 THEN RaisedWith(Raise("ValueError", c), datarr)
    ELSE UnshapeGrid(m, IF datarr.masked THEN Filled(datarr) ELSE datarr, c)

\* np.asarray(value, np.int): the cells as C longs, in a new array
CellsToLong(nd, a) ==
    IF nd = 2 THEN [r \in DOMAIN a |-> [k \in DOMAIN a[r] |-> Trunc(a[r][k])]]
    ELSE [k \in DOMAIN a |-> Trunc(a[k])]

\* the caller's value after the call: its data is what _unshape_mask left
\* if datarr is the caller's array (shared)
ArgAfter(shared, value, u) == IF shared THEN [value EXCEPT !.a = u.value.a] ELSE value

\* the array write of __setitem__ after _unshape_mask, which gave u: the
\* contiguous buffer goes to fn
SetArrayWrite(m, key, fn, u, shared, value, accept) ==
    IF u.exc # "none" THEN SetRet(u.exc, u.calls, m.dec, ArgAfter(shared, value, u))
    ELSE SetWrite(m, key, fn, Flat(u.value), accept, u.calls, ArgAfter(shared, value, u))

\* the array branch of __setitem__: "values" goes through _unshape_mask
SetArray_WriteFirst(m, key, fn, datarr, shared, value, accept, c) ==
    IF /\ key = "values"
       /\ UnshapeMask(m, datarr, c).exc # "none"
       /\ DecAccepts(m.dec, key, fn, Flat(datarr), accept)
    THEN SetRet(UnshapeMask(m, datarr, c).exc, Append(c, <<fn, key>>),
                DecWrite(m.dec, key, fn, Flat(datarr)), value)
    ELSE SetArrayWrite(m, key, fn,
                       IF key = "values" THEN UnshapeMask(m, datarr, c) ELSE Ret(datarr, c),
                       shared, value, accept)

SetArray(m, key, fn, datarr, shared, value, accept, c) ==
    SetArrayWrite(m, key, fn,
                  IF key = "values" THEN UnshapeMask(m, datarr, c) ELSE Ret(datarr, c),
                  shared, value, accept)

\* the GRIB_TYPE_LONG branch of __setitem__ (is_array starts as None)
SetLong(m, key, value, accept, c) ==
    IF value.t = "str" THEN SetRet("ValueError", c, m.dec, value)
    ELSE IF value.t = "long"
    THEN SetWrite(m, key, "grib_set_long", value.v, accept, c, value)
    ELSE IF value.t = "double"
    THEN SetWrite(m, key, "grib_set_long", Trunc(value.v), accept, c, value)
    ELSE SetArray(m, key, "grib_set_long_array",
                  VArray(value.nd, CellsToLong(value.nd, value.a)), FALSE, value, accept, c)

\* the GRIB_TYPE_DOUBLE branch of __setitem__
SetDouble_ArrayAsScalar(m, key, value, accept, c) ==
    IF value.t = "str" THEN SetRet("ValueError", c, m.dec, value)
    ELSE IF value.t = "long"
    THEN SetWrite(m, key, "grib_set_double", FromInt(value.v), accept, c, value)
    ELSE IF value.t = "double"
    THEN SetWrite(m, key, "grib_set_double", value.v, accept, c, value)
    ELSE SetWrite(m, key, "grib_set_double", Flat(value)[0], accept, c, value)

SetDouble(m, key, value, accept, c) ==
    IF value.t = "str" THEN SetRet("ValueError", c, m.dec, value)
    ELSE IF value.t = "long"
    THEN SetWrite(m, key, "grib_set_double", FromInt(value.v), accept, c, value)
    ELSE IF value.t = "double"
    THEN SetWrite(m, key, "grib_set_double", value.v, accept, c, value)
    ELSE SetArray(m, key, "grib_set_double_array",
                  VArray(value.nd, value.a), TRUE, value, accept, c)

\* the GRIB_TYPE_STRING branch of __setitem__
SetString(m, key, value, accept, c) ==
    IF value.t # "str" THEN SetRet("TypeError", c, m.dec, value)
    ELSE SetWrite(m, key, "grib_set_string", value, accept, c, value)

\* the two tests __setitem__ makes on the cached catalog before anything else
SetRejection_NoCatalogTest(m, key) ==
    IF key \in m.ro_keys THEN "KeyError" ELSE "none"

SetRejection(m, key) ==
    IF key \in m.ro_keys THEN "KeyError"
    ELSE IF key \notin m.all_keys THEN "KeyError"
    ELSE "none"

\* gribmessage.__setitem__(key, value)
SetItem(m, key, value, accept) ==
    IF SetRejection(m, key) # "none" THEN SetRet(SetRejection(m, key), <<>>, m.dec, value) ELSE
    LET c0 == <<<<"grib_get_native_type", key>>>> IN
    IF key \notin DOMAIN m.dec THEN SetRet("RuntimeError", c0, m.dec, value)
    ELSE IF m.dec[key].type = "LONG" THEN SetLong(m, key, value, accept, c0)
    ELSE IF m.dec[key].type = "DOUBLE" THEN SetDouble(m, key, value, accept, c0)
    ELSE IF m.dec[key].type = "STRING" THEN SetString(m, key, value, accept, c0)
    ELSE SetRet("ValueError", c0, m.dec, value)

-----------------------------------------------------------------------------
(* The messages of the model: tables of the keys the decoder holds.        *)

\* a key of the decoder: native type, read-only flag, element count, value
Key(type, ro, size, val) == [type |-> type, ro |-> ro, size |-> size, val |-> val]

Scalar(v) == [k \in {0} |-> v]

Pair(v, w) == [k \in {0, 1} |-> IF k = 0 THEN v ELSE w]

\* a scalar integer key that can be written
Flag(b) == Key("LONG", FALSE, 1, Scalar(b))

\* the record of the last call on the message: the call, its key and
\* argument, how it ended (as Ret/Raise), the argument as the call left it
\* and the decoder's keys as they were before it
Result(op, key, arg, r, after, before) ==
    [op |-> op, key |-> key, arg |-> arg, exc |-> r.exc, value |-> r.value,
     calls |-> r.calls, after |-> after, before |-> before]

NoResult == [op |-> "none"]

\* gribmessage.__new__ on a handle whose keys are d
MessageNew(d) ==
    /\ dec = d
    /\ all_keys = Keys(d)
    /\ ro_keys = ReadOnlyKeys(d, Keys(d))
    /\ expand_reduced = TRUE
    /\ projparams = VNone
    /\ result = NoResult

\* a missingValue key of the decoder, to MantBits bits
SampleMissing == <<5, 11>>

-----------------------------------------------------------------------------
(* SpecAccess: get, set, has_key and keys on one message that has a key K  *)
(* of any native type, a key in the list keys() ignores, and a two-point   *)
(* "values" array.                                                         *)

\* what the key K may be: absent, or of a native type, with one element or
\* two, read-only or not
KeyKinds == (NativeTypes \cup {"absent"}) \X {1, 2} \X BOOLEAN

KeyVariants ==
    {kk \in KeyKinds : (kk[1] \notin {"LONG", "DOUBLE"} => kk[2] = 1)
                        /\ (kk[1] = "absent" => ~kk[3])}

KeyVariant(kk) ==
    IF kk[1] = "LONG"
    THEN Key("LONG", kk[3], kk[2], IF kk[2] = 1 THEN Scalar(0) ELSE Pair(0, 1))
    ELSE IF kk[1] = "DOUBLE"
    THEN Key("DOUBLE", kk[3], kk[2], IF kk[2] = 1 THEN Scalar(FOne) ELSE Pair(FOne, FHalf))
    ELSE IF kk[1] = "STRING" THEN Key("STRING", kk[3], 1, VStr("abc", 2))
    ELSE Key(kk[1], kk[3], 1, Scalar(0))

GridTypes == {"regular_ll", "reduced_gg", "sh"}

TypedTable(kv, gt, vro, jpos) ==
    LET base == ("values" :> Key("DOUBLE", vro, 2, Pair(FOne, <<15, -3>>)))
                @@ ("typeOfGrid" :> Key("STRING", FALSE, 1, VStr(gt, 0)))
                @@ ("jScansPositively" :> Flag(jpos))
                @@ ("iScansNegatively" :> Flag(0))
                @@ ("alternativeRowScanning" :> Flag(0))
                @@ ("zero" :> Flag(0))
    IN  IF kv.type = "absent" THEN base ELSE base @@ ("K" :> kv)

\* the keys the calls name: those of the decoder and one it does not have
CallKeys == DOMAIN dec \cup {"nokey"}

\* the keys set is called on
SetKeys == CallKeys \ {"iScansNegatively", "alternativeRowScanning", "jScansPositively"}

\* the values set is called with: a number, a text, and arrays of one, two
\* and three dimensions
SetValues == {"number", "text", "1d", "2d", "3d"}

SetValue(v) ==
    IF v = "number" THEN VLong(1)
    ELSE IF v = "text" THEN VStr("reduced_gg", 0)
    ELSE IF v = "1d" THEN VArray(1, Pair(<<15, -3>>, FOne))
    ELSE IF v = "2d" THEN VArray(2, Pair(Scalar(FOne), Scalar(<<3, -1>>)))
    ELSE VArray(3, Pair(FOne, FOne))

\* the key K varies on a regular grid, the grid with K absent
InitAccess ==
    /\ \E kk \in KeyVariants, gt \in GridTypes, vro \in BOOLEAN, jpos \in {0, 1} :
          /\ (kk[1] # "absent" => (gt = "regular_ll" /\ ~vro /\ jpos = 1))
          /\ MessageNew(TypedTable(KeyVariant(kk), gt, vro, jpos))
    /\ RedIdle
    /\ SessIdle

\* grb[key]
Get_Caching(key) ==
    /\ \E g \in {GetItem(Msg, key)} : result' = Result("get", key, VNone, g, VNone, dec)
    /\ all_keys' = all_keys \cup {key}
    /\ UNCHANGED <<dec, ro_keys, expand_reduced, projparams, redvars, sessvars>>

Get(key) ==
    /\ \E g \in {GetItem(Msg, key)} : result' = Result("get", key, VNone, g, VNone, dec)
    /\ UNCHANGED <<dec, all_keys, ro_keys, expand_reduced, projparams, redvars, sessvars>>

\* grb[key] = value
Set(key, value, accept) ==
    /\ \E r \in {SetItem(Msg, key, value, accept)} :
          /\ dec' = r.dec
          /\ result' = Result("set", key, value, r, r.arg, dec)
    /\ UNCHANGED <<all_keys, ro_keys, expand_reduced, projparams, redvars, sessvars>>

\* grb.has_key(key)
HasKeyCall(key) ==
    /\ result' = Result("has_key", key, VNone, Ret([t |-> "bool", v |-> HasKey(Msg, key)], <<>>),
                        VNone, dec)
    /\ UNCHANGED <<dec, all_keys, ro_keys, expand_reduced, projparams, redvars, sessvars>>

\* grb.keys(), the catalog being cached
KeysCall ==
    /\ result' = Result("keys", "", VNone, Ret([t |-> "list", v |-> all_keys], <<>>), VNone, dec)
    /\ UNCHANGED <<dec, all_keys, ro_keys, expand_reduced, projparams, redvars, sessvars>>

NextAccess ==
    \/ \E key \in CallKeys : Get(key)
    \/ \E key \in SetKeys, v \in SetValues, accept \in BOOLEAN : Set(key, SetValue(v), accept)
    \/ \E key \in CallKeys : HasKeyCall(key)
    \/ KeysCall

SpecAccess == InitAccess /\ [][NextAccess]_vars

\* the decoder writes among the calls of the last call
Writes(calls) == {i \in 1 .. Len(calls) : calls[i][1] \in WriteFns}

\* the errors set detects itself
LocalErrors == {"KeyError", "ValueError", "TypeError"}

\* C1: set on a key of the cached read-only subset, or on a key absent from
\* the cached catalog, raises KeyError and makes no decoder call that
\* changes the message, whatever the value.
C1_RejectedSetWritesNothing ==
    (result.op = "set" /\ (result.key \in ro_keys \/ result.key \notin all_keys)) =>
        /\ result.exc = "KeyError"
        /\ Writes(result.calls) = {}
        /\ dec = result.before

C1_Witness ==
    /\ result.op = "set"
    /\ result.key \in ro_keys
    /\ result.key \in DOMAIN dec
    /\ result.arg.t = "array"
    /\ result.exc = "KeyError"

\* C2: a set call issues at most one decoder write; it issues none, and
\* leaves the decoder's keys as they were, when it raises an error it
\* detects itself; the keys change only in a call that returns, and then
\* only the key set.
C2_SetAllOrNothing ==
    result.op = "set" =>
        /\ Cardinality(Writes(result.calls)) <= 1
        /\ result.exc \in LocalErrors => Writes(result.calls) = {}
        /\ result.exc # "none" => dec = result.before
        /\ dec # result.before =>
              /\ Cardinality(Writes(result.calls)) = 1
              /\ \A k \in DOMAIN dec \ {result.key} : dec[k] = result.before[k]

C2_Witness ==
    /\ result.op = "set"
    /\ result.key = "values"
    /\ result.arg.t = "array" /\ result.arg.nd = 2
    /\ result.exc = "ValueError"
    /\ Len(result.calls) > 1

\* C11: get on a key whose native type is undefined, bytes, section, label
\* or missing returns None and raises nothing.
C11_IgnorableTypesYieldNone ==
    (/\ result.op = "get"
     /\ result.key \in DOMAIN dec
     /\ dec[result.key].type \in IgnoredTypes) =>
        /\ result.exc = "none"
        /\ result.value = VNone

\* the last call was a read: get, has_key or keys
IsRead(r) == r.op \in {"get", "has_key", "keys"}

\* C12: a read (get, has_key, keys) makes no decoder write and leaves the
\* decoder's keys, the cached catalog and the cached read-only subset as
\* they were; a get of a key other than "values" that follows a read of the
\* same kind and key ends as that one did, with the same value.
C12_ReadsIdempotent ==
    [][/\ IsRead(result') =>
             /\ Writes(result'.calls) = {}
             /\ dec' = dec /\ all_keys' = all_keys /\ ro_keys' = ro_keys
       /\ (/\ IsRead(result) /\ result'.op = result.op
           /\ result'.key = result.key /\ result.key # "values") =>
              /\ result'.exc = result.exc
              /\ result'.value = result.value]_vars

C12_Witness ==
    /\ result.op = "get"
    /\ result.key = "K"
    /\ result.exc = "none"
    /\ result.value.t = "array"
    /\ result.before = dec

\* the last call was a set of a number or an array to a writable key of the
\* catalog whose native type is LONG or DOUBLE
NumericSet ==
    /\ result.op = "set"
    /\ result.key \in all_keys \ ro_keys
    /\ result.before[result.key].type \in {"LONG", "DOUBLE"}
    /\ result.arg.t \in {"long", "double", "array"}

\* the decoder function the dispatch of C18 names for the value given
DispatchFn ==
    IF result.before[result.key].type = "LONG"
    THEN (IF result.arg.t = "array" THEN "grib_set_long_array" ELSE "grib_set_long")
    ELSE (IF result.arg.t = "array" THEN "grib_set_double_array" ELSE "grib_set_double")

\* the elements the dispatch of C18 hands to the decoder, as the key's type
DispatchData ==
    IF result.arg.t # "array"
    THEN Scalar(IF result.before[result.key].type = "LONG" THEN result.arg.v
                ELSE FromInt(result.arg.v))
    ELSE IF result.before[result.key].type = "LONG"
    THEN FlatOf(result.arg.nd, CellsToLong(result.arg.nd, result.arg.a))
    ELSE Flat(result.arg)

\* one decoder write, by the function of the dispatch; the call returns
\* unless the decoder refuses, and the key then holds the elements given
\* (those of "values" in coded order)
Dispatched ==
    /\ Cardinality(Writes(result.calls)) = 1
    /\ \A i \in Writes(result.calls) : result.calls[i] = <<DispatchFn, result.key>>
    /\ result.exc \in {"none", "RuntimeError"}
    /\ result.exc = "none" =>
          /\ ALen(dec[result.key].val) = ALen(DispatchData)
          /\ result.key # "values" => dec[result.key].val = DispatchData

\* the arrays _unshape_mask refuses for "values"
Unshapeable ==
    /\ result.key = "values" /\ result.arg.t = "array"
    /\ \/ result.arg.nd > 2
       \/ /\ result.arg.nd # 1
          /\ StartsWithReduced(result.before["typeOfGrid"].val)

\* C18 (as stated): a set of a scalar to a writable numeric key makes
\* exactly one scalar decoder write of that value, a set of an array exactly
\* one array decoder write of all its elements, and the call returns when
\* the decoder accepts the write.
C18_ShapeDispatch == NumericSet => Dispatched

\* C18 (amended): as stated, except for an array given for "values" that
\* has more than two dimensions, or is not 1-d on a reduced grid: the call
\* then raises ValueError and makes no decoder write.
C18_ShapeDispatchUnlessUnshapeable ==
    NumericSet =>
        IF Unshapeable
        THEN result.exc = "ValueError" /\ Writes(result.calls) = {} /\ dec = result.before
        ELSE Dispatched

C18_Witness ==
    /\ NumericSet
    /\ result.key = "K"
    /\ result.arg.t = "array" /\ result.arg.nd = 2
    /\ result.before["K"].type = "LONG"
    /\ result.exc = "none"
    /\ dec # result.before

-----------------------------------------------------------------------------
(* SpecValues: the "values" of one message with a grid: read, normalised   *)
(* again, written back, on regular grids of every shape and scan mode, on  *)
(* reduced grids and on messages without Ni and Nj.                        *)

FlagKeys == {"jScansPositively", "iScansNegatively", "alternativeRowScanning"}

MissingKinds == {"none", "counted", "uncounted"}

\* the sentinel a cell may hold
Sentinel(mvkind) == IF mvkind = "none" THEN DefaultMissval ELSE SampleMissing

Count(vals, s) == Cardinality({k \in DOMAIN vals : vals[k] = s})

\* the keys of a message of grid type gt whose coded values are vals
GridTable(gt, ny, nx, pl, vals, flags, mvkind) ==
    LET base == ("values" :> Key("DOUBLE", FALSE, ALen(vals), vals))
                @@ ("typeOfGrid" :> Key("STRING", FALSE, 1, VStr(gt, 0)))
                @@ ("jPointsAreConsecutive" :> Flag(0))
                @@ [k \in FlagKeys |-> Flag(flags[k])]
        grid == IF gt = "sh" THEN base
                ELSE base @@ ("Ni" :> Flag(nx)) @@ ("Nj" :> Flag(ny))
        red  == IF gt = "reduced_gg" THEN grid @@ ("pl" :> Key("LONG", TRUE, ALen(pl), pl))
                ELSE grid
    IN  IF mvkind = "none" THEN red
        ELSE red @@ ("missingValue" :> Key("DOUBLE", FALSE, 1, Scalar(SampleMissing)))
                 @@ ("numberOfMissing" :>
                        Key("LONG", TRUE, 1,
                            Scalar(IF mvkind = "counted" THEN Count(vals, SampleMissing) ELSE 0)))

Shapes == {s \in (1 .. MaxCells) \X (1 .. MaxCells) : s[1] * s[2] <= MaxCells}

\* the cells that hold the sentinel: none, any one, or all of n
MissingSets(n) == {{}, 0 .. n - 1} \cup {{k} : k \in 0 .. n - 1}

\* coded values, all different but for the sentinel in the cells of miss
CodedValues(n, miss, mvkind) ==
    [k \in 0 .. n - 1 |-> IF k \in miss THEN Sentinel(mvkind) ELSE FromInt(k + 1)]

DefaultFlags == [k \in FlagKeys |-> IF k = "jScansPositively" THEN 1 ELSE 0]

AllFlags == [k \in FlagKeys |-> IF k = "jScansPositively" THEN 0 ELSE 1]

\* a regular grid of every shape, in every scan mode
InitRegular ==
    \E s \in Shapes, mvkind \in MissingKinds, flags \in [FlagKeys -> {0, 1}] :
        \E miss \in MissingSets(s[1] * s[2]) :
            MessageNew(GridTable("regular_ll", s[1], s[2], <<>>,
                                 CodedValues(s[1] * s[2], miss, mvkind), flags, mvkind))

\* a reduced grid: Ni is missing and pl holds the row lengths
InitReduced ==
    \E pl \in RowLengths, mvkind \in MissingKinds, flags \in {DefaultFlags, AllFlags} :
        /\ SumTo(pl, ALen(pl)) >= 1
        /\ \E miss \in MissingSets(SumTo(pl, ALen(pl))) :
              MessageNew(GridTable("reduced_gg", ALen(pl), GRIB_MISSING_LONG, pl,
                                   CodedValues(SumTo(pl, ALen(pl)), miss, mvkind),
                                   flags, mvkind))

\* a message without Ni and Nj
InitSpectral ==
    \E n \in 1 .. MaxPts, mvkind \in MissingKinds :
        \E miss \in MissingSets(n) :
            MessageNew(GridTable("sh", 0, 0, <<>>, CodedValues(n, miss, mvkind),
                                 DefaultFlags, mvkind))

InitValues ==
    /\ InitRegular \/ InitReduced \/ InitSpectral
    /\ RedIdle
    /\ SessIdle

IsReduced == StartsWithReduced(dec["typeOfGrid"].val)

\* grb['values']
GetValues == Get("values")

\* grb._reshape_mask(x), x being the array grb['values'] has just returned
ReshapeAgain ==
    /\ result.op = "get" /\ result.key = "values"
    /\ result.exc = "none" /\ result.value.t = "array"
    /\ ~IsReduced
    /\ \E r \in {ReshapeMask(Msg, result.value, <<>>)} :
          result' = Result("reshape", "values", result.value, r, VNone, dec)
    /\ UNCHANGED <<dec, all_keys, ro_keys, expand_reduced, projparams, redvars, sessvars>>

\* grb['values'] = grb['values']
SetValuesBack(accept) ==
    \E g \in {GetItem(Msg, "values")} :
        IF g.exc # "none"
        THEN /\ result' = Result("setback", "values", VNone, g, VNone, dec)
             /\ UNCHANGED <<dec, all_keys, ro_keys, expand_reduced, projparams, redvars, sessvars>>
        ELSE \E r \in {SetItem(Msg, "values", g.value, accept)} :
             /\ dec' = r.dec
             /\ result' = Result("setback", "values", g.value,
                                 [r EXCEPT !.calls = g.calls \o r.calls], r.arg, dec)
             /\ UNCHANGED <<all_keys, ro_keys, expand_reduced, projparams, redvars, sessvars>>

\* grb.expand_reduced = b
SetExpandReduced(b) ==
    /\ b # expand_reduced
    /\ expand_reduced' = b
    /\ result' = NoResult
    /\ UNCHANGED <<dec, all_keys, ro_keys, projparams, redvars, sessvars>>

NextValues ==
    \/ GetValues
    \/ ReshapeAgain
    \/ \E accept \in BOOLEAN : SetValuesBack(accept)
    \/ \E b \in BOOLEAN : SetExpandReduced(b)

SpecValues == InitValues /\ [][NextValues]_vars

\* the message's grid in coded order, and its scan flags
Coded(d) == Reshape(d["values"].val, d["Nj"].val[0], d["Ni"].val[0])

ScanFlag(k) == dec[k].val[0] # 0

\* the normalisation has been applied twice to the coded grid
NormalisedTwice == result.op = "reshape" /\ result.exc = "none" /\ result.value.nd = 2

\* the scan modes in which the third correction acts on the rows the first
\* one moved to the other parity
ParityMoves ==
    /\ NRows(Coded(dec)) % 2 = 0
    /\ ~ScanFlag("jScansPositively")
    /\ ScanFlag("alternativeRowScanning")

\* C5 (as stated): the normalisation applied twice with the same flags
\* yields the original array, for every shape and every flag combination.
C5_TwiceIsIdentity ==
    NormalisedTwice => result.value.a = Coded(dec)

\* C5 (amended): the normalisation applied twice yields the original array
\* when the row count is odd, or jScansPositively is set, or
\* alternativeRowScanning is not; with an even row count, jScansPositively
\* unset and alternativeRowScanning set it yields the original array with
\* the columns of every row reversed.
C5_TwiceIsIdentityUnlessParityMoves ==
    NormalisedTwice =>
        result.value.a = IF ParityMoves THEN ColsReversed(Coded(dec)) ELSE Coded(dec)

C5_Witness ==
    /\ NormalisedTwice
    /\ ParityMoves
    /\ Coded(dec) # ColsReversed(Coded(dec))

\* C6: on a message that is not a reduced grid and has a 2-d grid, setting
\* "values" to what get returned writes the values the decoder held, in
\* every scan mode.
C6_SetBackRestoresCoded ==
    (/\ result.op = "setback" /\ result.exc = "none"
     /\ ~IsReduced
     /\ result.arg.t = "array" /\ result.arg.nd = 2) =>
        dec["values"].val = result.before["values"].val

\* the cells of x equal to s are masked
SentinelMasked(x, s) ==
    IF x.t # "array" THEN x.v # s
    ELSE IF x.nd = 1
    THEN \A k \in DOMAIN x.a : x.a[k] = s => (x.masked /\ x.mask[k])
    ELSE \A r \in DOMAIN x.a : \A c \in DOMAIN x.a[r] :
             x.a[r][c] = s => (x.masked /\ x.mask[r][c])

\* C7: when the message has a missingValue key and numberOfMissing > 0,
\* every cell of the result of get('values') that equals the sentinel is
\* masked, whatever the shape of the result.
C7_SentinelCellsMasked ==
    (/\ result.op = "get" /\ result.key = "values" /\ result.exc = "none"
     /\ HasKey(Msg, "missingValue")
     /\ dec["numberOfMissing"].val[0] > 0) =>
        SentinelMasked(result.value, dec["missingValue"].val[0])

\* C19: a set of "values" to a 2-d array of the key's numeric type leaves
\* the caller's array as it was, in every scan mode, whether the call
\* returns or raises.
C19_ArgumentUnchanged ==
    (/\ result.op = "setback"
     /\ result.arg.t = "array" /\ result.arg.nd = 2) =>
        result.after = result.arg

-----------------------------------------------------------------------------
(* gribmessage.latlons.  The projection library (pyproj) and numpy give     *)
(* arrays of the shape of their arguments; the model keeps the shapes of    *)
(* the two arrays returned, <<rows, columns>>, and the projection           *)
(* parameters a, b and proj.  Lengths are in metres, as integers.           *)

\* the dictionary projparams: the entries it has (keys) and a, b and proj
Dict(keys, a, b, proj) == [t |-> "dict", keys |-> keys, a |-> a, b |-> b, proj |-> proj]

\* projparams = {}
EmptyDict == Dict({}, 0, 0, "")

\* projparams['a'] = a; projparams['b'] = b
WithAxes(a, b) == Dict({"a", "b"}, a, b, "")

\* projparams['proj'] = proj (the other entries of a projection are not kept)
WithProj(pp, proj) == [pp EXCEPT !.keys = @ \cup {"proj"}, !.proj = proj]

\* return lats, lons; pp is what self.projparams becomes
LatRet(lats, lons, pp) ==
    Ret([t |-> "latlons", lats |-> lats, lons |-> lons, projparams |-> pp], <<>>)

\* an exception leaves latlons; pp is the local projparams at that point
LatRaise(exc, msg, pp) ==
    [exc |-> exc, value |-> [t |-> "error", msg |-> msg, projparams |-> pp], calls |-> <<>>]

\* self[key] for a key of one element
KeyValue(m, key) == GetKey(m, key).value.v

\* len() of self[key] as numpy takes it; a key of one element is read as a
\* scalar, which has no len()
KeyLen(m, key) == IF m.dec[key].size = 1 THEN 0 ELSE m.dec[key].size

\* 1000.*np.power(10.0,-scale) for a scale factor that is not 0 (the value
\* read is never the object self.missingvalue_int); 1 otherwise
ScaleOf(s) == IF s # 0 THEN 1000 \div (10 ^ s) ELSE 1

\* scalea, scaleb
Scales(m) ==
    IF HasKey(m, "scaleFactorOfMajorAxisOfOblateSpheroidEarth")
    THEN <<ScaleOf(KeyValue(m, "scaleFactorOfMajorAxisOfOblateSpheroidEarth")),
           ScaleOf(KeyValue(m, "scaleFactorOfMinorAxisOfOblateSpheroidEarth"))>>
    ELSE <<1, 1>>

\* the keys the earth-shape part of latlons reads for the code
EarthKeys(m, code) ==
    (IF HasKey(m, "scaleFactorOfMajorAxisOfOblateSpheroidEarth")
     THEN {"scaleFactorOfMajorAxisOfOblateSpheroidEarth",
           "scaleFactorOfMinorAxisOfOblateSpheroidEarth"}
     ELSE {})
    \cup (IF code = 6 THEN {"radius"}
          ELSE IF code \in {3, 7}
          THEN {"scaledValueOfMajorAxisOfOblateSpheroidEarth",
                "scaledValueOfMinorAxisOfOblateSpheroidEarth"}
          ELSE IF code = 1 THEN {"scaledValueOfRadiusOfSphericalEarth"}
          ELSE {})

\* the chain of tests on self['shapeOfTheEarth']: the axes a and b, or
\* the error
EarthAxes_RadiusScaled(m, code, sc) ==
    IF code = 6 THEN WithAxes(KeyValue(m, "radius") * sc[1], KeyValue(m, "radius") * sc[2])
    ELSE IF code \in {3, 7}
    THEN WithAxes(KeyValue(m, "scaledValueOfMajorAxisOfOblateSpheroidEarth") * sc[1],
                  KeyValue(m, "scaledValueOfMinorAxisOfOblateSpheroidEarth") * sc[2])
    ELSE IF code = 2 THEN WithAxes(6378160, 6356775)
    ELSE IF code = 1
    THEN WithAxes(KeyValue(m, "scaledValueOfRadiusOfSphericalEarth") * sc[1],
                  KeyValue(m, "scaledValueOfRadiusOfSphericalEarth") * sc[2])
    ELSE IF code = 0 THEN WithAxes(6367470, 6367470)
    ELSE IF code = 0 THEN WithAxes(6378137, 6356752)
    ELSE IF code = 8 THEN WithAxes(6371200, 6371200)
    ELSE EmptyDict

EarthAxes(m, code, sc) ==
    IF code = 6 THEN WithAxes(KeyValue(m, "radius"), KeyValue(m, "radius"))
    ELSE IF code \in {3, 7}
    THEN WithAxes(KeyValue(m, "scaledValueOfMajorAxisOfOblateSpheroidEarth") * sc[1],
                  KeyValue(m, "scaledValueOfMinorAxisOfOblateSpheroidEarth") * sc[2])
    ELSE IF code = 2 THEN WithAxes(6378160, 6356775)
    ELSE IF code = 1
    THEN WithAxes(KeyValue(m, "scaledValueOfRadiusOfSphericalEarth") * sc[1],
                  KeyValue(m, "scaledValueOfRadiusOfSphericalEarth") * sc[2])
    ELSE IF code = 0 THEN WithAxes(6367470, 6367470)
    ELSE IF code = 0 THEN WithAxes(6378137, 6356752)
    ELSE IF code = 8 THEN WithAxes(6371200, 6371200)
    ELSE EmptyDict

\* the codes one of the tests accepts
KnownShapes == {0, 1, 2, 3, 6, 7, 8}

\* the keys the grid part of latlons reads for each grid type
GridKeys(gt) ==
    IF gt \in {"regular_gg", "regular_ll"} THEN {"distinctLongitudes", "distinctLatitudes"}
    ELSE IF gt = "reduced_gg"
    THEN {"distinctLatitudes", "Nj", "longitudeOfFirstGridPointInDegrees",
          "longitudeOfLastGridPointInDegrees"}
    ELSE IF gt = "reduced_ll"
    THEN {"Nj", "latitudeOfFirstGridPointInDegrees", "latitudeOfLastGridPointInDegrees",
          "longitudeOfFirstGridPointInDegrees", "longitudeOfLastGridPointInDegrees"}
    ELSE IF gt = "polar_stereographic"
    THEN {"latitudeOfFirstGridPointInDegrees", "longitudeOfFirstGridPointInDegrees",
          "Ni", "Nj", "xDirectionGridLengthInMetres", "yDirectionGridLengthInMetres",
          "latitudeWhereDxAndDyAreSpecifiedInDegrees", "projectionCentreFlag",
          "orientationOfTheGridInDegrees"}
    ELSE IF gt = "lambert"
    THEN {"latitudeOfFirstGridPointInDegrees", "longitudeOfFirstGridPointInDegrees",
          "Ni", "Nj", "DxInMetres", "DyInMetres", "LoVInDegrees", "LaDInDegrees",
          "Latin1InDegrees", "Latin2InDegrees"}
    ELSE IF gt = "albers"
    THEN {"latitudeOfFirstGridPointInDegrees", "longitudeOfFirstGridPointInDegrees",
          "Ni", "Nj", "Dx", "Dy", "grib2divider", "LoV", "truncateDegrees", "LaD",
          "Latin1", "Latin2"}
    ELSE IF gt = "space_view"
    THEN {"Ni", "Nj", "longitudeOfSubSatellitePointInDegrees",
          "latitudeOfSubSatellitePointInDegrees", "grib2divider",
          "altitudeOfTheCameraFromTheEarthSCenterMeasuredInUnitsOfTheEarth",
          "apparentDiameterOfEarthInGridLengthsInXDirection",
          "apparentDiameterOfEarthInGridLengthsInYDirection"}
    ELSE IF gt \in {"equatorial_azimuthal_equidistant", "lambert_azimuthal_equal_area"}
    THEN {"standardParallel", "centralLongitude", "Dx", "Dy",
          "latitudeOfFirstGridPointInDegrees", "longitudeOfFirstGridPointInDegrees"}
    ELSE IF gt = "mercator"
    THEN {"grib2divider", "latitudeOfFirstGridPoint", "truncateDegrees",
          "longitudeOfFirstGridPoint", "latitudeOfLastGridPoint",
          "longitudeOfLastGridPoint",
          "latitudeSAtWhichTheMercatorProjectionIntersectsTheEarth", "Ni", "Nj"}
    ELSE {}

\* lons,lats = np.meshgrid(lons,lats) for arrays of nx and ny elements (0: a
\* scalar): both have the shape (ny, nx); whether a scalar is taken as an
\* array of one element depends on the numpy at hand (scalars)
Meshgrid(ny, nx, pp, scalars) ==
    IF (ny = 0 \/ nx = 0) /\ ~scalars THEN LatRaise("TypeError", "len() of unsized object", pp)
    ELSE LatRet(<<IF ny = 0 THEN 1 ELSE ny, IF nx = 0 THEN 1 ELSE nx>>,
                <<IF ny = 0 THEN 1 ELSE ny, IF nx = 0 THEN 1 ELSE nx>>, pp)

\* the branches that make x and y of np.arange(nx) and np.arange(ny) and
\* project them: polar_stereographic, lambert, albers
Projected(ny, nx, pp) == LatRet(<<ny, nx>>, <<ny, nx>>, pp)

\* the space_view branch, lat_0 being the latitude of the sub-satellite point
SpaceView(ny, nx, lat_0, pp) ==
    IF lat_0 = FZero THEN Projected(ny, nx, WithProj(pp, "geos"))
    ELSE IF pp.a # pp.b
    THEN LatRaise("ValueError", "unsupported grid - earth not a perfect sphere", pp)
    ELSE Projected(ny, nx, WithProj(pp, "nsper"))

\* the two azimuthal branches: x = llcrnrx+dx*np.arange(nx), where nx and
\* ny are not assigned in these branches; an unassigned local holds None
\* (as is_array does in __setitem__), which np.arange does not take
Azimuthal(pp) == LatRaise("TypeError", "np.arange(nx), nx not assigned", pp)

\* the mercator branch: dx = (urcrnrx-llcrnrx)/(nx-1), dy likewise
Mercator(ny, nx, pp) ==
    IF nx = 1 \/ ny = 1 THEN LatRaise("ZeroDivisionError", "float division", pp)
    ELSE Projected(ny, nx, pp)

\* the chain of tests on self['typeOfGrid'], pp holding a and b
GridBranch(m, gt, pp, scalars) ==
    IF ~(GridKeys(gt) \subseteq DOMAIN m.dec) THEN LatRaise("RuntimeError", "key", pp)
    ELSE IF gt \in {"regular_gg", "regular_ll"}
    THEN Meshgrid(KeyLen(m, "distinctLatitudes"), KeyLen(m, "distinctLongitudes"),
                  WithProj(pp, "cyl"), scalars)
    ELSE IF gt = "reduced_gg"
    THEN Meshgrid(KeyLen(m, "distinctLatitudes"), 2 * KeyValue(m, "Nj"),
                  WithProj(pp, "cyl"), scalars)
    ELSE IF gt = "reduced_ll"
    THEN Meshgrid(KeyValue(m, "Nj"), 2 * KeyValue(m, "Nj"), WithProj(pp, "cyl"), TRUE)
    ELSE IF gt = "polar_stereographic"
    THEN Projected(KeyValue(m, "Nj"), KeyValue(m, "Ni"), WithProj(pp, "stere"))
    ELSE IF gt = "lambert"
    THEN Projected(KeyValue(m, "Nj"), KeyValue(m, "Ni"), WithProj(pp, "lcc"))
    ELSE IF gt = "albers"
    THEN Projected(KeyValue(m, "Nj"), KeyValue(m, "Ni"), WithProj(pp, "aea"))
    ELSE IF gt = "space_view"
    THEN SpaceView(KeyValue(m, "Nj"), KeyValue(m, "Ni"),
                   KeyValue(m, "latitudeOfSubSatellitePointInDegrees"), pp)
    ELSE IF gt = "equatorial_azimuthal_equidistant"
    THEN Azimuthal(WithProj(pp, "aeqd"))
    ELSE IF gt = "lambert_azimuthal_equal_area"
    THEN Azimuthal(WithProj(pp, "laea"))
    ELSE IF gt = "mercator"
    THEN Mercator(KeyValue(m, "Nj"), KeyValue(m, "Ni"), WithProj(pp, "merc"))
    ELSE LatRaise("ValueError", "unsupported grid", pp)

\* latlons after the earth shape: self['typeOfGrid'] and its branch
LatlonsGrid(m, pp, scalars) ==
    IF "typeOfGrid" \notin DOMAIN m.dec THEN LatRaise("RuntimeError", "key", pp)
    ELSE GridBranch(m, KeyValue(m, "typeOfGrid"), pp, scalars)

\* latlons from the tests on self['shapeOfTheEarth'] on
LatlonsEarth(m, code, scalars) ==
    IF ~(EarthKeys(m, code) \subseteq DOMAIN m.dec) THEN LatRaise("RuntimeError", "key", EmptyDict)
    ELSE IF code \notin KnownShapes
    THEN LatRaise("ValueError", "unknown shape of the earth flag", EmptyDict)
    ELSE LatlonsGrid(m, EarthAxes(m, code, Scales(m)), scalars)

\* gribmessage.latlons(), up to the assignment of self.projparams
Latlons(m, scalars) ==
    IF "shapeOfTheEarth" \notin DOMAIN m.dec THEN LatRaise("RuntimeError", "key", EmptyDict)
    ELSE LatlonsEarth(m, KeyValue(m, "shapeOfTheEarth"), scalars)

\* self.projparams = projparams, which a call that raises does not reach
ProjParamsAfter_InPlace(old, r) == r.value.projparams

ProjParamsAfter(old, r) == IF r.exc = "none" THEN r.value.projparams ELSE old

-----------------------------------------------------------------------------
(* SpecLatlons: latlons, get and set on one message of any grid type and   *)
(* any earth-shape code, whose keys are those latlons reads.               *)

\* the grid types latlons has a branch for, and one it has none for
LatGridTypes ==
    {"regular_gg", "regular_ll", "reduced_gg", "reduced_ll", "polar_stereographic",
     "lambert", "albers", "mercator", "equatorial_azimuthal_equidistant",
     "lambert_azimuthal_equal_area", "space_view"}

\* the codes of the shape of the earth
EarthCodes == 0 .. 9

\* the keys of the messages: all that latlons may read
LatKeys ==
    UNION {GridKeys(gt) : gt \in LatGridTypes}
    \cup {"shapeOfTheEarth", "typeOfGrid", "radius",
          "scaledValueOfMajorAxisOfOblateSpheroidEarth",
          "scaledValueOfMinorAxisOfOblateSpheroidEarth",
          "scaledValueOfRadiusOfSphericalEarth"}

\* the scale-factor keys, which only some messages have
ScaleKeys == {"scaleFactorOfMajorAxisOfOblateSpheroidEarth",
              "scaleFactorOfMinorAxisOfOblateSpheroidEarth"}

\* the key k of a message of grid type gt, earth-shape code `code` and
\* dimensions ny, nx; v picks among two sets of values
LatKey(k, code, gt, ny, nx, v) ==
    IF k = "shapeOfTheEarth" THEN Flag(code)
    ELSE IF k = "typeOfGrid" THEN Key("STRING", FALSE, 1, VStr(gt, 0))
    ELSE IF k = "Nj" THEN Key("LONG", TRUE, 1, Scalar(ny))
    ELSE IF k = "Ni"
    THEN Key("LONG", TRUE, 1,
             Scalar(IF gt \in {"reduced_gg", "reduced_ll"} THEN GRIB_MISSING_LONG ELSE nx))
    ELSE IF k = "distinctLatitudes" THEN Key("DOUBLE", TRUE, ny, [i \in 0 .. ny - 1 |-> FromInt(i)])
    ELSE IF k = "distinctLongitudes" THEN Key("DOUBLE", TRUE, nx, [i \in 0 .. nx - 1 |-> FromInt(i)])
    ELSE IF k = "radius" THEN Key("LONG", TRUE, 1, Scalar(IF v = 0 THEN 6371229 ELSE 6400000))
    ELSE IF k = "scaledValueOfMajorAxisOfOblateSpheroidEarth" THEN Key("LONG", TRUE, 1, Scalar(63781))
    ELSE IF k = "scaledValueOfMinorAxisOfOblateSpheroidEarth" THEN Key("LONG", TRUE, 1, Scalar(63567))
    ELSE IF k = "scaledValueOfRadiusOfSphericalEarth" THEN Key("LONG", TRUE, 1, Scalar(63712))
    ELSE IF k = "scaleFactorOfMajorAxisOfOblateSpheroidEarth" THEN Key("LONG", TRUE, 1, Scalar(1))
    ELSE IF k = "scaleFactorOfMinorAxisOfOblateSpheroidEarth" THEN Key("LONG", TRUE, 1, Scalar(2))
    ELSE IF k = "latitudeOfSubSatellitePointInDegrees"
    THEN Key("DOUBLE", TRUE, 1, Scalar(IF v = 0 THEN FZero ELSE FOne))
    ELSE Key("LONG", TRUE, 1, Scalar(1))

LatTable(code, gt, ny, nx, v) ==
    [k \in (IF v = 0 THEN LatKeys ELSE LatKeys \cup ScaleKeys) |->
        LatKey(k, code, gt, ny, nx, v)]

InitLatlons ==
    /\ \E code \in EarthCodes, gt \in LatGridTypes \cup {"sh"},
          ny \in 1 .. MaxDim, nx \in 1 .. MaxDim, v \in {0, 1} :
          MessageNew(LatTable(code, gt, ny, nx, v))
    /\ RedIdle
    /\ SessIdle

\* grb.latlons(); scalars says whether numpy takes a scalar for an array
LatlonsCall(scalars) ==
    /\ \E r \in {Latlons(Msg, scalars)} :
          /\ projparams' = ProjParamsAfter(projparams, r)
          /\ result' = Result("latlons", "", VNone, r, VNone, dec)
    /\ UNCHANGED <<dec, all_keys, ro_keys, expand_reduced, redvars, sessvars>>

NextLatlons ==
    \/ \E scalars \in BOOLEAN : LatlonsCall(scalars)
    \/ \E key \in {"shapeOfTheEarth", "typeOfGrid", "nokey"} : Get(key)
    \/ \E code \in {2, 5}, accept \in BOOLEAN : Set("shapeOfTheEarth", VLong(code), accept)
    \/ \E accept \in BOOLEAN : Set("typeOfGrid", VStr("sh", 0), accept)

SpecLatlons == InitLatlons /\ [][NextLatlons]_vars

\* the grid type and the earth-shape code of the message
GridType == dec["typeOfGrid"].val.v

EarthCode == dec["shapeOfTheEarth"].val[0]

\* the shape the message declares: (Nj, Ni), (Nj, 2*Nj) on a reduced grid
DeclaredShape ==
    IF GridType \in {"reduced_gg", "reduced_ll"}
    THEN <<dec["Nj"].val[0], 2 * dec["Nj"].val[0]>>
    ELSE <<dec["Nj"].val[0], dec["Ni"].val[0]>>

\* C14: for each of the eleven grid types, with a recognised earth-shape
\* code, latlons returns two arrays of the shape the message declares.
C14_LatlonsShapes ==
    (result.op = "latlons" /\ GridType \in LatGridTypes /\ EarthCode \in KnownShapes) =>
        /\ result.exc = "none"
        /\ result.value.lats = DeclaredShape
        /\ result.value.lons = DeclaredShape

\* latlons has returned, on a message of earth-shape code c
ShapeResolved(c) == result.op = "latlons" /\ result.exc = "none" /\ EarthCode = c

\* a code outside {0,1,2,3,6,7,8} fails with the unknown-shape error
UnknownShapeFails ==
    (result.op = "latlons" /\ EarthCode \notin {0, 1, 2, 3, 6, 7, 8}) =>
        /\ result.exc = "ValueError"
        /\ result.value.msg = "unknown shape of the earth flag"

C16_ProjParamsWhole ==
    [][/\ (result'.op = "latlons" /\ result'.exc # "none") => projparams' = projparams
       /\ (result'.op = "latlons" /\ result'.exc = "none") =>
             /\ projparams' = result'.value.projparams
             /\ projparams'.keys = {"a", "b", "proj"}
       /\ result'.op \in {"get", "set"} => projparams' = projparams]_vars

C16_Witness ==
    /\ result.op = "latlons"
    /\ result.exc = "ValueError"
    /\ result.value.msg = "unsupported grid"
    /\ projparams.t = "dict"
    /\ projparams # result.value.projparams

=============================================================================
